---- MODULE Spec2Model ----
(***************************************************************************)
(* Model of the VPK directory reader (src/src/lib.rs): DirReader::new     *)
(* decodes the header of a byte stream, DirReader::next walks the         *)
(* directory tree that follows it.  The stream is a sequence of bytes     *)
(* (0..255); a u32 is kept as its two little-endian 16 bit words so that  *)
(* every value of the width is representable.                             *)
(***************************************************************************)
EXTENDS Integers, Sequences, FiniteSets, TLC

VARIABLES
    stream,      \* the bytes behind the BufRead (fixed input)
    pos,         \* number of bytes taken from the stream so far (the cursor)
    pc,          \* "start" before DirReader::new, "ready" after Ok, "failed" after Err
    new_err,     \* the error DirReader::new returned ("" when none)
    header,      \* DirReader.header: [tree_size, header_v2]
    path_buf,    \* DirReader.path_buf
    extn_len,    \* DirReader.extn_len
    dir_len,     \* DirReader.dir_len
    bytes_read,  \* DirReader.bytes_read
    res,         \* what the last call of next() returned
    tree_start,  \* history: the cursor when new() returned
    cap,         \* history: the tokens last taken as extension, directory, name
    entry_at,    \* history: cursor at which the last pull began an entry record (-1: none)
    yielded,     \* history: the records returned so far, in order
    past,        \* history: the kinds of value next() has returned so far
    log,         \* history: the turns of the loop the last call of next() made
    input        \* history: the description the stream was built from

vars == <<stream, pos, pc, new_err, header, path_buf, extn_len, dir_len,
          bytes_read, res, tree_start, cap, entry_at, yielded, past, log, input>>

\* ----------------------------------------------------------------- bounds
MaxSegs == 3
MaxTreeSize == 1
MaxFiles == 4
MaxTokLen == 1       \* bytes in one token of the text inputs
MaxCutFiles == 2     \* files in a tree of the truncated inputs

\* ------------------------------------------------------------ byte helpers
NUL == 0
SPACE == 32
SLASH == 47
DOT == 46

Min(S) == CHOOSE x \in S : \A y \in S : x <= y

\* A u16 / u32 as byteorder::LittleEndian reads it.
U16(b) == b[1] + 256 * b[2]
U32(b) == [lo |-> b[1] + 256 * b[2], hi |-> b[3] + 256 * b[4]]

\* `x as usize` of a u32 (64 bit usize: no truncation).
AsUsize(w) == w.hi * 65536 + w.lo

Magic == [lo |-> 4660, hi |-> 21930]

\* Mutant: a truncation that drops nothing.
TruncateKeepsAll(v, n) == v

\* Vec::truncate: no effect when n is not below the length.
Truncate(v, n) == IF n < Len(v) THEN SubSeq(v, 1, n) ELSE v

\* ------------------------------------------------------------- the stream
Avail(p) == Len(stream) - p

\* read_exact of n bytes at cursor p: the bytes when they are there.
CanRead(p, n) == p + n <= Len(stream)
Bytes(p, n) == SubSeq(stream, p + 1, p + n)

\* BufRead::read_until(0, buf) at cursor p: the number of bytes it takes,
\* up to and including the first 0 byte, or all the rest when there is none.
RECURSIVE ReadUntilLen(_)
ReadUntilLen(p) ==
    IF p >= Len(stream) THEN 0
    ELSE IF stream[p + 1] = NUL THEN 1
    ELSE 1 + ReadUntilLen(p + 1)

\* ------------------------------------------------------------ DirReader::new
SigOk(sig) == sig = Magic

\* Mutant: the version is judged by its low 16 bits only.
VersionOkLowWord(version) == version.lo = 1 \/ version.lo = 2

VersionOk(version) == version = [lo |-> 1, hi |-> 0] \/ version = [lo |-> 2, hi |-> 0]

\* Mutant: the version 2 block is read one field short.
ExtFieldCountShort(version) == IF version.lo = 2 THEN 3 ELSE 0

\* Number of u32 fields of the version 2 block read after tree_size.
ExtFieldCount(version) == IF version.lo = 2 THEN 4 ELSE 0

NoHeader == [tree_size |-> [lo |-> 0, hi |-> 0], header_v2 |-> <<>>]

\* The outcome of new() on the stream: [err, pos, header].  A read_u32 that
\* meets the end of the stream fails with UnexpectedEof; the bytes it leaves
\* taken are all the rest (eofAll) or none, as the reader implements it.
NewResult(eofAll) ==
    LET eofPos(p) == IF eofAll THEN Len(stream) ELSE p
    IN  IF ~CanRead(0, 4) THEN [err |-> "UnexpectedEof", pos |-> eofPos(0), header |-> NoHeader]
        ELSE IF ~SigOk(U32(Bytes(0, 4)))
             THEN [err |-> "InvalidData:signature", pos |-> 4, header |-> NoHeader]
        ELSE IF ~CanRead(4, 4) THEN [err |-> "UnexpectedEof", pos |-> eofPos(4), header |-> NoHeader]
        ELSE IF ~VersionOk(U32(Bytes(4, 4)))
             THEN [err |-> "InvalidData:version", pos |-> 8, header |-> NoHeader]
        ELSE IF ~CanRead(8, 4) THEN [err |-> "UnexpectedEof", pos |-> eofPos(8), header |-> NoHeader]
        ELSE LET version == U32(Bytes(4, 4))
                 tree_size == U32(Bytes(8, 4))
                 k == ExtFieldCount(version)
                 got == Min({k, Avail(12) \div 4})
             IN  IF got < k
                 THEN [err |-> "UnexpectedEof", pos |-> eofPos(12 + 4 * got), header |-> NoHeader]
                 ELSE [err |-> "", pos |-> 12 + 4 * k,
                       header |-> [tree_size |-> tree_size,
                                   header_v2 |-> IF k = 0 THEN <<>>
                                                 ELSE << [file_data_section_size |-> U32(Bytes(12, 4)),
                                                          archive_md5_section_size |-> U32(Bytes(16, 4)),
                                                          other_md5_section_size |-> U32(Bytes(20, 4)),
                                                          signature_section_size |-> U32(Bytes(24, 4))] >>]]

NoEntry == [file |-> <<>>, crc |-> [lo |-> 0, hi |-> 0], preload_data |-> <<>>,
            archive_index |-> <<>>, entry_offset |-> [lo |-> 0, hi |-> 0],
            entry_length |-> [lo |-> 0, hi |-> 0]]

NoRes == [kind |-> "Start", entry |-> NoEntry, err |-> ""]
NoCap == [extn |-> <<>>, dir |-> <<>>, name |-> <<>>]

New ==
    /\ pc = "start"
    /\ LET r0 == NewResult(TRUE)
       IN  \E eofAll \in (IF r0.err = "UnexpectedEof" THEN BOOLEAN ELSE {TRUE}) :
             LET r == IF eofAll THEN r0 ELSE NewResult(FALSE)
             IN  /\ pc' = IF r.err = "" THEN "ready" ELSE "failed"
                 /\ new_err' = r.err
                 /\ pos' = r.pos
                 /\ tree_start' = r.pos
                 /\ header' = r.header
    /\ path_buf' = <<>>
    /\ extn_len' = 0
    /\ dir_len' = 0
    /\ bytes_read' = 0
    /\ UNCHANGED <<stream, res, cap, entry_at, yielded, past, log, input>>

\* ------------------------------------------------------------ the accessors
TreeSize == AsUsize(header.tree_size)

\* Mutant: the version 2 block is left out of the offset.
DataOffsetV1Only == 12 + TreeSize

\* data_offset(): tree size plus the header byte offset.
DataOffset == 12 + 16 * (IF header.header_v2 # <<>> THEN 1 ELSE 0) + TreeSize

\* data_len(): the file data section size of a version 2 header.
DataLen == IF header.header_v2 = <<>> THEN <<>>
           ELSE <<AsUsize(header.header_v2[1].file_data_section_size)>>

\* ----------------------------------------------------------- text handling
IsCont(c) == c \in 128..191

\* str::from_utf8: is the byte sequence well-formed UTF-8.
RECURSIVE Utf8Valid(_)
Utf8Valid(b) ==
    IF b = <<>> THEN TRUE
    ELSE LET c == b[1]
             n == Len(b)
             rest(k) == Utf8Valid(SubSeq(b, k + 1, n))
         IN  IF c < 128 THEN rest(1)
             ELSE IF c \in 194..223 THEN n >= 2 /\ IsCont(b[2]) /\ rest(2)
             ELSE IF c = 224 THEN n >= 3 /\ b[2] \in 160..191 /\ IsCont(b[3]) /\ rest(3)
             ELSE IF c = 237 THEN n >= 3 /\ b[2] \in 128..159 /\ IsCont(b[3]) /\ rest(3)
             ELSE IF c \in 225..239 THEN n >= 3 /\ IsCont(b[2]) /\ IsCont(b[3]) /\ rest(3)
             ELSE IF c = 240 THEN n >= 4 /\ b[2] \in 144..191 /\ IsCont(b[3]) /\ IsCont(b[4]) /\ rest(4)
             ELSE IF c \in 241..243 THEN n >= 4 /\ IsCont(b[2]) /\ IsCont(b[3]) /\ IsCont(b[4]) /\ rest(4)
             ELSE IF c = 244 THEN n >= 4 /\ b[2] \in 128..143 /\ IsCont(b[3]) /\ IsCont(b[4]) /\ rest(4)
             ELSE FALSE

\* str::is_char_boundary at byte index i (0-based) of valid text b.
IsCharBoundary(b, i) ==
    \/ i = 0
    \/ i = Len(b)
    \/ i < Len(b) /\ ~IsCont(b[i + 1])

\* &buf_str[from..to] returns instead of panicking.
SliceOk(b, from, to) ==
    from <= to /\ to <= Len(b) /\ IsCharBoundary(b, from) /\ IsCharBoundary(b, to)

\* Mutant: a placeholder name leaves the whole path empty.
JoinPathNameFirst(path, name, extn) ==
    IF name = <<SPACE>> THEN <<>>
    ELSE (IF path # <<SPACE>> THEN path \o <<SLASH>> ELSE <<>>)
         \o name
         \o (IF extn # <<SPACE>> THEN <<DOT>> \o extn ELSE <<>>)

\* The path pushed together from the three slices of the buffer.
JoinPath(path, name, extn) ==
    (IF path # <<SPACE>> THEN path \o <<SLASH>> ELSE <<>>)
    \o (IF name # <<SPACE>> THEN name ELSE <<>>)
    \o (IF extn # <<SPACE>> THEN <<DOT>> \o extn ELSE <<>>)

\* ----------------------------------------------------------- DirReader::next
\* The guard of the first match arm: the count has reached tree_size.
AtTreeEnd(br) == br = AsUsize(header.tree_size)

\* Mutant: every even terminator is accepted as well.
TerminatorOkAny(terminator) == terminator % 2 = 0 \/ terminator = 65535

TerminatorOk(terminator) == terminator = 65535

\* Mutant: the sentinel 0x7fff is passed on as an index.
ArchiveIndexLiteral(v) == <<v>>

ArchiveIndex(v) == IF v = 32767 THEN <<>> ELSE <<v>>

\* Mutant: the terminator field is left out of the count.
EntryRecordLenShort == (32 + 16 + 16 + 32 + 32) \div 8

\* Bytes counted for the fixed part of an entry record.
EntryRecordLen == (32 + 16 + 16 + 32 + 32 + 16) \div 8

\* Offsets, in the entry record, at which its successive reads end.
FieldEnds == {4, 6, 8, 12, 16, 18}

Ret(s, kind, entry, err) == [s |-> s, res |-> [kind |-> kind, entry |-> entry, err |-> err]]

\* The entry record read after a name token; s.pos is the cursor after the token.
ReadEntry(s, file_path, eofAll) ==
    LET q == s.pos
        eofPos(p) == IF eofAll THEN Len(stream) ELSE p
        done == IF Avail(q) < 4 THEN 0
                ELSE CHOOSE e \in FieldEnds :
                        e <= Avail(q) /\ \A f \in FieldEnds : f <= Avail(q) => f <= e
    IN  IF ~CanRead(q, 18)
        THEN Ret([s EXCEPT !.pos = eofPos(q + done)], "Err", NoEntry, "UnexpectedEof")
        ELSE LET rec == Bytes(q, 18)
                 preload_bytes == U16(SubSeq(rec, 5, 6))
                 terminator == U16(SubSeq(rec, 17, 18))
                 entry == [file |-> file_path,
                           crc |-> U32(SubSeq(rec, 1, 4)),
                           preload_data |-> Bytes(q + 18, preload_bytes),
                           archive_index |-> ArchiveIndex(U16(SubSeq(rec, 7, 8))),
                           entry_offset |-> U32(SubSeq(rec, 9, 12)),
                           entry_length |-> U32(SubSeq(rec, 13, 16))]
             IN  IF ~TerminatorOk(terminator)
                 THEN Ret([s EXCEPT !.pos = q + 18], "Err", NoEntry, "InvalidData:terminator")
                 ELSE IF ~CanRead(q + 18, preload_bytes)
                 THEN Ret([s EXCEPT !.pos = eofPos(q + 18)], "Err", NoEntry, "UnexpectedEof")
                 ELSE Ret([s EXCEPT !.pos = q + 18 + preload_bytes,
                                    !.bytes_read = @ + preload_bytes + EntryRecordLen,
                                    !.path_buf = Truncate(@, s.extn_len + s.dir_len)],
                          "Ok", entry, "")

\* What one turn of the loop did, for the history: the arm taken, the bytes
\* read_until appended, the token kept, and the capture state before (in s0)
\* and after (in s1).
LogEntry(arm, raw, tok, s0, s1) ==
    [arm |-> arm, raw |-> raw, tok |-> tok,
     e0 |-> s0.extn_len, d0 |-> s0.dir_len, extn |-> s0.cap.extn,
     buf |-> s1.path_buf, e1 |-> s1.extn_len, d1 |-> s1.dir_len]

\* Mutant: the extension is tested before the directory.
EmptyTokenExtnFirst(s) ==
    IF 0 < s.extn_len
    THEN [s |-> [s EXCEPT !.path_buf = <<>>, !.extn_len = 0], arm |-> "empty_extn"]
    ELSE IF 0 < s.dir_len
    THEN [s |-> [s EXCEPT !.path_buf = Truncate(@, s.extn_len), !.dir_len = 0], arm |-> "empty_dir"]
    ELSE [s |-> s, arm |-> "empty_none"]

\* The arm of a one-byte read, after the byte is appended and counted.
EmptyToken(s) ==
    IF 0 < s.dir_len
    THEN [s |-> [s EXCEPT !.path_buf = Truncate(@, s.extn_len), !.dir_len = 0], arm |-> "empty_dir"]
    ELSE IF 0 < s.extn_len
    THEN [s |-> [s EXCEPT !.path_buf = <<>>, !.extn_len = 0], arm |-> "empty_extn"]
    ELSE [s |-> s, arm |-> "empty_none"]

\* The loop of next(): s is the reader's state, the result is the state at
\* the return together with the value returned.
RECURSIVE NextLoop(_, _)
NextLoop(s, eofAll) ==
    LET len == ReadUntilLen(s.pos)
        raw == Bytes(s.pos, len)
        buf == s.path_buf \o raw
        s1 == [s EXCEPT !.pos = @ + len, !.path_buf = buf]
        Logged(t, arm, tok) == [t EXCEPT !.log = Append(@, LogEntry(arm, raw, tok, s, t))]
    IN  IF AtTreeEnd(s.bytes_read) THEN Ret(Logged(s1, "tree_end", <<>>), "None", NoEntry, "")
        ELSE IF len = 0 THEN Ret(Logged(s1, "eof", <<>>), "None", NoEntry, "")
        ELSE IF len = 1 THEN
            LET r == EmptyToken([s1 EXCEPT !.bytes_read = @ + 1])
                t == Logged(r.s, r.arm, <<>>)
            IN  IF r.arm = "empty_none"
                THEN Ret(t, "None", NoEntry, "")
                ELSE NextLoop(t, eofAll)
        ELSE
            LET popped == SubSeq(buf, 1, Len(buf) - 1)
                tok == SubSeq(raw, 1, len - 1)
                s2 == [s1 EXCEPT !.bytes_read = @ + len, !.path_buf = popped]
            IN  IF s.extn_len = 0
                THEN NextLoop(Logged([s2 EXCEPT !.extn_len = len - 1, !.cap.extn = tok], "extn", tok),
                              eofAll)
                ELSE IF s.dir_len = 0
                THEN NextLoop(Logged([s2 EXCEPT !.dir_len = len - 1, !.cap.dir = tok], "dir", tok),
                              eofAll)
                ELSE
                    LET s3 == Logged([s2 EXCEPT !.cap.name = tok], "name", tok)
                        e == s.extn_len
                        d == s.extn_len + s.dir_len
                    IN  IF ~Utf8Valid(popped)
                        THEN Ret(s3, "Err", NoEntry, "InvalidData:utf8")
                        ELSE IF ~(SliceOk(popped, e, d) /\ SliceOk(popped, d, Len(popped))
                                  /\ SliceOk(popped, 0, e))
                        THEN Ret(s3, "Panic", NoEntry, "")
                        ELSE ReadEntry([s3 EXCEPT !.entry_at = s3.pos],
                                       JoinPath(SubSeq(popped, e + 1, d),
                                                SubSeq(popped, d + 1, Len(popped)),
                                                SubSeq(popped, 1, e)),
                                       eofAll)

\* A read that meets the end of the stream leaves all the rest taken or, with
\* other readers, nothing: both are tried when the pull meets the end.
Pull ==
    /\ pc = "ready"
    /\ res.kind # "Panic"
    /\ LET s0 == [pos |-> pos, path_buf |-> path_buf, extn_len |-> extn_len,
                  dir_len |-> dir_len, bytes_read |-> bytes_read,
                  cap |-> cap, entry_at |-> -1, log |-> <<>>]
           r0 == NextLoop(s0, TRUE)
       IN  \E eofAll \in (IF r0.res.err = "UnexpectedEof" THEN BOOLEAN ELSE {TRUE}) :
             LET r == IF eofAll THEN r0 ELSE NextLoop(s0, FALSE)
             IN  /\ pos' = r.s.pos
                 /\ path_buf' = r.s.path_buf
                 /\ extn_len' = r.s.extn_len
                 /\ dir_len' = r.s.dir_len
                 /\ bytes_read' = r.s.bytes_read
                 /\ cap' = r.s.cap
                 /\ entry_at' = r.s.entry_at
                 /\ log' = r.s.log
                 /\ res' = r.res
                 /\ yielded' = IF r.res.kind = "Ok" THEN Append(yielded, r.res.entry) ELSE yielded
                 /\ past' = past \cup {r.res.kind}
    /\ UNCHANGED <<stream, pc, new_err, header, tree_start, input>>

Next == New \/ Pull

\* ------------------------------------------------------------------ inputs
\* Little-endian encodings of small numbers, to build input streams.
LE16(v) == <<v % 256, v \div 256>>
LE32(v) == <<v % 256, (v \div 256) % 256, (v \div 65536) % 256, v \div 16777216>>

MagicBytes == <<52, 18, 170, 85>>

HeaderBytes(version, tree_size) ==
    MagicBytes \o LE32(version) \o LE32(tree_size)
    \o (IF version = 2 THEN LE32(7) \o LE32(0) \o LE32(0) \o LE32(0) ELSE <<>>)

EntryBytes(crc, preload_bytes, archive_index, entry_offset, entry_length, terminator) ==
    LE32(crc) \o LE16(preload_bytes) \o LE16(archive_index)
    \o LE32(entry_offset) \o LE32(entry_length) \o LE16(terminator)

RECURSIVE Flatten(_)
Flatten(ss) == IF ss = <<>> THEN <<>> ELSE Head(ss) \o Flatten(Tail(ss))

\* The pieces an arbitrary stream body is put together from: an empty token,
\* a byte without terminator, a placeholder token, an extension and a directory
\* token, and name tokens followed by an entry record (well terminated without
\* and with a preload byte, and with terminator 0x1234).
Segs ==
    { <<NUL>>,
      <<97>>,
      <<SPACE, NUL>>,
      <<97, NUL, 97, NUL>>,
      <<97, NUL>> \o EntryBytes(16843009, 0, 5, 16843013, 16843011, 65535),
      <<SPACE, NUL>> \o EntryBytes(16843010, 1, 32767, 16843013, 16843011, 65535) \o <<9>>,
      <<97, NUL>> \o EntryBytes(16843012, 0, 32767, 16843013, 16843011, 4660) }

SegSeqs == UNION {[1..k -> Segs] : k \in 0..MaxSegs}

\* Headers tried in front of a body: the two supported versions with a
\* tree_size that is small or the body's length, and, in front of short
\* bodies, a wrong signature, unsupported versions and cut headers.
Headers(segs) ==
    LET body == Flatten(segs)
        good == {HeaderBytes(v, ts) : v \in {1, 2}, ts \in (0..MaxTreeSize) \cup {Len(body)}}
        bad == { <<53, 18, 170, 85>> \o LE32(1) \o LE32(1),
                 <<52, 18, 170, 85, 0>> \o LE32(1) \o LE32(1),
                 HeaderBytes(3, 1), HeaderBytes(0, 1), HeaderBytes(65538, 1) }
        cut == {SubSeq(HeaderBytes(2, 1), 1, n) : n \in {0, 2, 6, 10, 20}}
    IN  good \cup (IF Len(segs) <= 1 THEN bad \cup cut ELSE {})

InitReader ==
    /\ pos = 0
    /\ pc = "start"
    /\ new_err = ""
    /\ header = NoHeader
    /\ path_buf = <<>>
    /\ extn_len = 0
    /\ dir_len = 0
    /\ bytes_read = 0
    /\ res = NoRes
    /\ tree_start = 0
    /\ cap = NoCap
    /\ entry_at = -1
    /\ yielded = <<>>
    /\ past = {}
    /\ log = <<>>

Init ==
    /\ \E segs \in SegSeqs : \E h \in Headers(segs) : stream = h \o Flatten(segs)
    /\ input = <<>>
    /\ InitReader

Spec == Init /\ [][Next]_vars

\* --------------------------------------------------- well-formed tree inputs
\* A tree of n files in on-disk order: brk[i] tells whether file i continues
\* the directory of file i-1 (0), opens a new directory of the same extension
\* (1) or opens a new extension (2).  With ph, the odd directories and the
\* second extension carry the placeholder " ".
Shapes ==
    UNION {{b \in [1..n -> 0..2] : n > 0 => b[1] = 2} : n \in 0..MaxFiles}

ExtOrd(brk, i) == Cardinality({j \in 1..i : brk[j] = 2})
DirOrd(brk, i) == Cardinality({j \in 1..i : brk[j] >= 1})

ExtName(x, ph) == IF ph /\ x = 2 THEN <<SPACE>> ELSE <<100 + x>>
DirName(y, ph) == IF ph /\ y % 2 = 1 THEN <<SPACE>> ELSE <<110 + y, 110 + y>>
FileName(i) == <<96 + i>>

\* The bytes of file i: the group ends and group tokens its break asks for,
\* its name token, its entry record and its preload bytes.
FileChunk(brk, ph, i) ==
    (IF brk[i] = 2
     THEN (IF i > 1 THEN <<NUL, NUL>> ELSE <<>>)
          \o ExtName(ExtOrd(brk, i), ph) \o <<NUL>> \o DirName(DirOrd(brk, i), ph) \o <<NUL>>
     ELSE IF brk[i] = 1
     THEN <<NUL>> \o DirName(DirOrd(brk, i), ph) \o <<NUL>>
     ELSE <<>>)
    \o FileName(i) \o <<NUL>>
    \o EntryBytes(i, i % 2, IF i % 2 = 0 THEN 32767 ELSE i, 16 * i, i + 1, 65535)
    \o (IF i % 2 = 1 THEN <<i>> ELSE <<>>)

TreeBytes(brk, ph) ==
    Flatten([i \in 1..Len(brk) |-> FileChunk(brk, ph, i)])
    \o (IF Len(brk) > 0 THEN <<NUL, NUL>> ELSE <<>>) \o <<NUL>>

\* Bytes that may follow the tree section in the stream.
Trailers ==
    { <<>>, <<NUL>>,
      <<97, NUL, 97, NUL, 97, NUL>> \o EntryBytes(16843009, 0, 5, 16843013, 16843011, 65535) }

InitWF ==
    /\ \E brk \in Shapes, ph \in BOOLEAN, v \in {1, 2}, trail \in Trailers :
         /\ stream = HeaderBytes(v, Len(TreeBytes(brk, ph))) \o TreeBytes(brk, ph) \o trail
         /\ input = [brk |-> brk, ph |-> ph]
    /\ InitReader

SpecWF == InitWF /\ [][Next]_vars

\* ----------------------------------------------------------- text inputs
\* One file whose tokens are drawn from ASCII, the two halves of a two-byte
\* character, and a byte no UTF-8 text contains.
TextBytes == {97, 195, 169, 255}

Tokens == UNION {[1..n -> TextBytes] : n \in 1..MaxTokLen}

InitText ==
    /\ \E extn \in Tokens, dir \in Tokens, name \in Tokens, v \in {1, 2} :
         LET tree == extn \o <<NUL>> \o dir \o <<NUL>> \o name \o <<NUL>>
                     \o EntryBytes(16843009, 0, 5, 16843013, 16843011, 65535)
                     \o <<NUL, NUL, NUL>>
         IN  /\ stream = HeaderBytes(v, Len(tree)) \o tree
             /\ input = [extn |-> extn, dir |-> dir, name |-> name]
    /\ InitReader

SpecText == InitText /\ [][Next]_vars

\* ------------------------------------------------------- truncated inputs
\* A well-formed tree whose stream stops after k bytes of the tree section,
\* the header still announcing the whole section.
InitCut ==
    /\ \E brk \in {b \in Shapes : Len(b) <= MaxCutFiles}, ph \in BOOLEAN :
         LET tree == TreeBytes(brk, ph)
         IN  \E k \in 0..(Len(tree) - 1) :
               /\ stream = HeaderBytes(1, Len(tree)) \o SubSeq(tree, 1, k)
               /\ input = [brk |-> brk, ph |-> ph, cut |-> k]
    /\ InitReader

SpecCut == InitCut /\ [][Next]_vars

\* ------------------------------------------------------------------ claims
\* Bytes taken from the stream since new() returned.
Taken == pos - tree_start

\* The join grammar of the format: directory "/" name "." extension, a
\* component equal to the placeholder " " contributing nothing.
GrammarPath(directory, name, extension) ==
    (IF directory = <<SPACE>> THEN <<>> ELSE directory \o <<SLASH>>)
    \o (IF name = <<SPACE>> THEN <<>> ELSE name)
    \o (IF extension = <<SPACE>> THEN <<>> ELSE <<DOT>> \o extension)

\* The record the format describes for file i of a well-formed tree.
ExpectedEntry(brk, ph, i) ==
    [file |-> GrammarPath(DirName(DirOrd(brk, i), ph), FileName(i), ExtName(ExtOrd(brk, i), ph)),
     crc |-> [lo |-> i, hi |-> 0],
     preload_data |-> IF i % 2 = 1 THEN <<i>> ELSE <<>>,
     archive_index |-> IF i % 2 = 0 THEN <<>> ELSE <<i>>,
     entry_offset |-> [lo |-> 16 * i, hi |-> 0],
     entry_length |-> [lo |-> i + 1, hi |-> 0]]

ExpectedRecords == [i \in 1..Len(input.brk) |-> ExpectedEntry(input.brk, input.ph, i)]

\* C1: after any number of pulls, the bytes the iterator has taken from the
\* stream after the header number at most tree_size.
C1_TakenWithinTreeSize ==
    pc = "ready" => Taken <= AsUsize(header.tree_size)

\* C2: once a pull has returned end-of-sequence (None), every later pull
\* returns end-of-sequence too.
C2_NoneIsFinal ==
    [][("None" \in past) => res'.kind = "None"]_vars

\* C3: once a pull has returned a decode error, no later pull returns a
\* FileRecord.
C3_NoRecordAfterError ==
    [][("Err" \in past) => res'.kind # "Ok"]_vars

\* C4: on a well-formed tree of N files with tree_size its encoded length,
\* the pulls up to the first end-of-sequence return exactly the N records of
\* the tree in on-disk order and no error, and bytes_read is then tree_size.
C4_RoundTrip ==
    /\ "Err" \notin past /\ "Panic" \notin past
    /\ Len(yielded) <= Len(ExpectedRecords)
    /\ yielded = SubSeq(ExpectedRecords, 1, Len(yielded))
    /\ ("None" \in past =>
            /\ yielded = ExpectedRecords
            /\ bytes_read = AsUsize(header.tree_size)
            /\ bytes_read = Len(TreeBytes(input.brk, input.ph)))

C4_Witness ==
    /\ "None" \in past
    /\ Len(yielded) = MaxFiles
    /\ ExtOrd(input.brk, MaxFiles) >= 2
    /\ DirOrd(input.brk, MaxFiles) >= 3
    /\ Len(stream) > tree_start + bytes_read

\* C5: the path of every yielded record is the grammar's join of the most
\* recently captured extension and directory tokens and the name token just
\* read.
C5_PathOfCapturedTokens ==
    res.kind = "Ok" => res.entry.file = GrammarPath(cap.dir, cap.name, cap.extn)

\* C6: every yielded record has a non-empty path, whatever the tokens are.
C6_PathNonEmpty ==
    res.kind = "Ok" => res.entry.file # <<>>

\* C6 (amended): every yielded record has a non-empty path unless its
\* extension, directory and name tokens are all the placeholder " ".
C6_PathNonEmptyUnlessAllPlaceholders ==
    (res.kind = "Ok" /\ ~(cap.extn = <<SPACE>> /\ cap.dir = <<SPACE>> /\ cap.name = <<SPACE>>))
        => res.entry.file # <<>>

C6_Witness ==
    /\ res.kind = "Ok"
    /\ cap.name = <<SPACE>>
    /\ cap.dir # <<SPACE>>
    /\ res.entry.file # <<>>

\* C7: a pull that reads an entry record whose terminator field is not
\* 0xFFFF returns a decode error and no record.
C7_BadTerminatorIsError ==
    (entry_at >= 0 /\ CanRead(entry_at, 18) /\ Bytes(entry_at + 16, 2) # <<255, 255>>)
        => (res.kind = "Err" /\ res.err = "InvalidData:terminator" /\ res.entry = NoEntry)

C7_Witness ==
    /\ entry_at >= 0
    /\ CanRead(entry_at, 18)
    /\ Bytes(entry_at + 16, 2) = <<52, 18>>
    /\ res.kind = "Err"

\* C8: every yielded record is decoded entirely from the first tree_size
\* bytes after the header.
C8_RecordsWithinTreeSize ==
    res.kind = "Ok" => Taken <= AsUsize(header.tree_size)

\* C9: new() fails with a malformed-header error and gives no reader when the
\* first u32 is not the magic (having taken only its 4 bytes) or the second
\* u32 is neither 1 nor 2.
C9_BadHeaderFails ==
    pc # "start" =>
        /\ (Len(stream) >= 4 /\ Bytes(0, 4) # MagicBytes)
              => (pc = "failed" /\ new_err = "InvalidData:signature" /\ pos = 4)
        /\ (Len(stream) >= 8 /\ Bytes(0, 4) = MagicBytes /\ Bytes(4, 4) \notin {LE32(1), LE32(2)})
              => (pc = "failed" /\ new_err = "InvalidData:version")

C9_Witness ==
    /\ pc = "failed"
    /\ Len(stream) > 12
    /\ Bytes(0, 4) # MagicBytes
    /\ pos = 4

\* C10: a successful new() leaves the cursor at byte 12 (version 1) or 28
\* (version 2), the first byte of the tree section, with nothing counted and
\* no extension or directory captured.
C10_NewTakesExactlyHeader ==
    (pc = "ready" /\ res.kind = "Start") =>
        /\ pos = (IF Bytes(4, 4) = LE32(1) THEN 12 ELSE 28)
        /\ tree_start = pos
        /\ bytes_read = 0 /\ extn_len = 0 /\ dir_len = 0 /\ path_buf = <<>>

C10_Witness ==
    /\ pc = "ready"
    /\ res.kind = "Start"
    /\ Bytes(4, 4) = LE32(2)
    /\ pos = 28
    /\ Len(stream) > 28

\* C11: data_offset() is the header's byte length (12 for version 1, 28 for
\* version 2) plus tree_size(), before and after any pulls.
C11_DataOffset ==
    pc = "ready" =>
        /\ DataOffset = (IF Bytes(4, 4) = LE32(1) THEN 12 ELSE 28) + TreeSize
        /\ TreeSize = stream[9] + 256 * stream[10] + 65536 * stream[11] + 16777216 * stream[12]
        /\ DataOffset = tree_start + TreeSize

C11_Witness ==
    /\ pc = "ready"
    /\ "Ok" \in past
    /\ Bytes(4, 4) = LE32(2)
    /\ TreeSize > 0
    /\ DataOffset = 28 + TreeSize

\* C12: a yielded record has no archive_index exactly when the u16 field of
\* its entry record is 0x7FFF, and otherwise has the field's value.
C12_ArchiveIndex ==
    res.kind = "Ok" =>
        LET f == Bytes(entry_at + 6, 2)
        IN  /\ (res.entry.archive_index = <<>>) <=> (f = <<255, 127>>)
            /\ f # <<255, 127>> => res.entry.archive_index = <<f[1] + 256 * f[2]>>

C12_Witness ==
    /\ res.kind = "Ok"
    /\ Bytes(entry_at + 6, 2) = <<5, 0>>
    /\ res.entry.archive_index = <<5>>

\* The last turn of the loop the last pull made.
LastTurn == log[Len(log)]

\* C13: a pull whose extension, directory or name token is not valid UTF-8
\* returns a decode error, and no pull ends in a panic.
C13_InvalidTokenIsError ==
    /\ res.kind # "Panic"
    /\ (/\ pc = "ready"
        /\ log # <<>>
        /\ LastTurn.arm = "name"
        /\ ~(Utf8Valid(cap.extn) /\ Utf8Valid(cap.dir) /\ Utf8Valid(cap.name)))
       => (res.kind = "Err" /\ res.err = "InvalidData:utf8")

\* C15: when the stream ends before the tree section is complete, the pull
\* that meets the end returns an error, so end-of-sequence is never returned
\* on a truncated stream unless an error was returned before it.
C15_TruncationIsError ==
    (pc = "ready" /\ res.kind = "None") => "Err" \in past

\* C14: on a finite stream every pull returns a value, and a pull that
\* returns anything but end-of-sequence has taken at least one more byte of
\* the stream, so only finitely many pulls come before end-of-sequence.
C14_PullsReturnAndProgress ==
    [][pc = "ready" =>
          /\ res'.kind \in {"None", "Ok", "Err"}
          /\ res'.kind # "None" => pos' > pos]_vars

\* C16: after every pull, whatever it returned, bytes_read equals the number
\* of bytes taken from the stream since the end of the header.
C16_BytesReadCountsTaken ==
    (pc = "ready" /\ past # {}) => bytes_read = Taken

\* The turns of the loop that handle a read as the empty token.
EmptyArms == {"empty_dir", "empty_extn", "empty_none"}

\* Turn i of the last pull read a token with at least one byte of text.
ReadsText(i) ==
    /\ i <= Len(log)
    /\ log[i].arm \notin {"tree_end", "eof"}
    /\ log[i].raw # <<NUL>>

\* C17: an empty token is resolved by the capture state alone.  With a
\* directory captured only the directory is cleared, the buffer holds just
\* the extension token, the loop continues and the next non-empty token is
\* taken as a directory; with only an extension captured, extension and
\* buffer are cleared, the loop continues and the next non-empty token is
\* taken as an extension; with neither, the pull returns end-of-sequence.
C17_EmptyTokenByCaptureState ==
    \A i \in 1..Len(log) :
        LET t == log[i]
        IN  (t.raw = <<NUL>> /\ t.arm \in EmptyArms) =>
                /\ t.d0 > 0 =>
                       /\ t.arm = "empty_dir"
                       /\ t.d1 = 0 /\ t.e1 = t.e0 /\ t.buf = t.extn
                       /\ i < Len(log)
                       /\ ReadsText(i + 1) => log[i + 1].arm = "dir"
                /\ (t.d0 = 0 /\ t.e0 > 0) =>
                       /\ t.arm = "empty_extn"
                       /\ t.d1 = 0 /\ t.e1 = 0 /\ t.buf = <<>>
                       /\ i < Len(log)
                       /\ ReadsText(i + 1) => log[i + 1].arm = "extn"
                /\ (t.d0 = 0 /\ t.e0 = 0) =>
                       /\ t.arm = "empty_none"
                       /\ i = Len(log)
                       /\ res.kind = "None"

\* The bytes of the groups captured at the moment.
Captured ==
    (IF extn_len > 0 THEN cap.extn ELSE <<>>) \o (IF dir_len > 0 THEN cap.dir ELSE <<>>)

\* No pull has yet returned end-of-sequence or an error, or panicked.
OnlyRecordsSoFar == pc = "ready" /\ past \cap {"None", "Err", "Panic"} = {}

\* C18 as stated: at the start of a pull made before any end-of-sequence or
\* error, path_buf is the captured extension followed by the captured
\* directory, and a pull that returns a record leaves extn_len, dir_len and
\* the buffer as they were.
C18_RecordPullKeepsCapture ==
    [][OnlyRecordsSoFar =>
          /\ path_buf = Captured
          /\ Len(path_buf) = extn_len + dir_len
          /\ res'.kind = "Ok" =>
                 /\ extn_len' = extn_len
                 /\ dir_len' = dir_len
                 /\ path_buf' = path_buf]_vars

\* C18, amended: at the start of such a pull path_buf is the captured
\* extension followed by the captured directory; a pull that returns a
\* record ends with the buffer holding the extension and directory then
\* captured, the name dropped, and leaves extn_len, dir_len and the buffer
\* as they were when the name was the only token it read.
C18_BufferHoldsCapture ==
    [][OnlyRecordsSoFar =>
          /\ path_buf = Captured
          /\ Len(path_buf) = extn_len + dir_len
          /\ res'.kind = "Ok" =>
                 /\ path_buf' = Captured'
                 /\ Len(path_buf') = extn_len' + dir_len'
                 /\ extn_len' > 0 /\ dir_len' > 0
                 /\ Len(log') = 1 =>
                        /\ extn_len' = extn_len
                        /\ dir_len' = dir_len
                        /\ path_buf' = path_buf]_vars

C18_Witness ==
    /\ OnlyRecordsSoFar
    /\ Len(yielded) >= 2
    /\ Len(log) = 1
    /\ res.kind = "Ok"
    /\ path_buf = cap.extn \o cap.dir
    /\ Len(cap.name) > 0

\* C19: in every reachable state of the reader a captured directory implies
\* a captured extension.
C19_DirImpliesExtn ==
    dir_len > 0 => extn_len > 0

C19_Witness ==
    /\ pc = "ready"
    /\ past \cap {"None", "Err"} # {}
    /\ \E i \in 1..Len(log) : log[i].arm = "empty_dir" /\ log[i].e1 > 0
    /\ dir_len > 0
    /\ extn_len > 0

\* The text of a token as read from the stream: its bytes without the 0x00
\* terminator, when it has one.
TokenText(raw) ==
    IF raw # <<>> /\ raw[Len(raw)] = NUL THEN SubSeq(raw, 1, Len(raw) - 1) ELSE raw

\* C20: a read is handled as the empty group-end marker only when it is the
\* single byte 0x00, and the text kept for a non-empty token is every byte
\* read but its 0x00 terminator, also when the stream ends without one.
C20_EmptyOnlyForNul ==
    \A i \in 1..Len(log) :
        /\ log[i].arm \in EmptyArms => log[i].raw = <<NUL>>
        /\ log[i].arm \in {"extn", "dir", "name"} => log[i].tok = TokenText(log[i].raw)

====
